---------------------------- MODULE Spec2Model ----------------------------
(***************************************************************************)
(* cache2go: one CacheTable, its CacheItems, the self-adjusting            *)
(* expiration timer and the goroutines that call into the table.           *)
(*                                                                         *)
(* Every goroutine is a thread with a program counter.  A step is one      *)
(* region of the code that no other goroutine can observe in part: a       *)
(* region run under the table's exclusive lock, a region under an item's   *)
(* lock, or a run of purely local statements.                              *)
(***************************************************************************)
EXTENDS Integers, Sequences, FiniteSets, Bags, TLC

\* ------------------------------------------------------------------ bounds
MaxTime == 3
MaxLife == 2
MaxOps  == 2
MaxHits == 2

Threads   == 1..2
Keys      == {"k1", "k2"}
Data      == {"d1", "d2"}
LifeSpans == 0..MaxLife

AddedCallbacks  == {"a1"}
DeleteCallbacks == {"x1"}
ExpireCallbacks == {"e1"}

NoItem   == 0
\* CacheItems that can be referenced at one time: one per key of the map, and
\* the item a call made and the item it looked up or loaded, per thread
ItemIds  == 1..(Cardinality(Keys) + 2 * Cardinality(Threads))
NoThread == 0

VARIABLES
    now,              \* time.Now()
    heap,             \* the CacheItems: id -> item (used = FALSE: no such item)
    items,            \* table.items: key -> item id (NoItem: no entry)
    cleanupTimer,     \* table.cleanupTimer: the *time.Timer the table points to
    orphanTimers,     \* armed timers the table no longer points to (bag of deadlines)
    cleanupInterval,  \* table.cleanupInterval
    loadData,         \* table.loadData /= nil
    addedItem,        \* table.addedItem
    aboutToDeleteItem,\* table.aboutToDeleteItem
    tableLock,        \* the thread holding table.Lock(), or NoThread
    pc,               \* where each thread stands
    loc,              \* each thread's local variables
    opsLeft,          \* calls the environment may still start
    cache,            \* the package's cache: table name -> *CacheTable (NoTable: no entry)
    tables            \* the CacheTables made by Cache: the name of each, by address

\* the goroutines there are: the callers' and the timers'
Goroutines == DOMAIN pc

vars == <<now, heap, items, cleanupTimer, orphanTimers, cleanupInterval, loadData,
          addedItem, aboutToDeleteItem, tableLock, pc, loc, opsLeft, cache, tables>>

\* the package's registry of tables
registry == <<cache, tables>>

Names == {"t1", "t2"}
NoTable == 0

\* cache = make(map[string]*CacheTable)
EmptyCache == [name \in Names |-> NoTable]

tableVars == <<items, cleanupTimer, orphanTimers, cleanupInterval, loadData,
               addedItem, aboutToDeleteItem>>

\* ------------------------------------------------------------------ items
EmptyMap == [k \in Keys |-> NoItem]

NewCacheItem(key, lifeSpan, data) ==
    [used |-> TRUE, key |-> key, lifeSpan |-> lifeSpan, data |-> data,
     createdOn |-> now, accessedOn |-> now, accessCount |-> 0,
     aboutToExpire |-> <<>>]

FreeItem ==
    [used |-> FALSE, key |-> "k1", lifeSpan |-> 0, data |-> "d1",
     createdOn |-> 0, accessedOn |-> 0, accessCount |-> 0, aboutToExpire |-> <<>>]

\* the address of the next allocation
NewId(h) == CHOOSE i \in ItemIds : ~h[i].used /\ \A j \in 1..(i - 1) : h[j].used

\* the items some pointer still leads to: the map's, a suspended range's, a thread's
Refs(m, l) ==
    {m[k] : k \in Keys}
    \cup UNION {{l[q].item, l[q].r, l[q].loaded, l[q].out} : q \in DOMAIN l}
    \cup UNION {{l[q].smap[k] : k \in Keys} : q \in DOMAIN l}
    \cup UNION {{l[q].list[i] : i \in DOMAIN l[q].list} : q \in DOMAIN l}

\* garbage collection: an item no pointer leads to is gone
Collect(h, m, l) == [i \in ItemIds |-> IF i \in Refs(m, l) THEN h[i] ELSE FreeItem]

\* ------------------------------------------------------------------ timers
NilTimer     == [set |-> FALSE, armed |-> FALSE, at |-> 0]
StoppedTimer == [set |-> TRUE, armed |-> FALSE, at |-> 0]

\* cleanupTimer.Stop() behind "if table.cleanupTimer != nil"
StopTimer(t) == IF t.set THEN StoppedTimer ELSE t

\* time.AfterFunc(d, ...): a new armed timer that fires d from now
AfterFunc(d) == [set |-> TRUE, armed |-> TRUE, at |-> now + d]

\* ------------------------------------------------------------------ locals
InitLoc ==
    [op |-> "none", key |-> "k1", item |-> NoItem, r |-> NoItem, dkey |-> "k1",
     expDur |-> 0, cbs |-> <<>>, snow |-> 0, smallest |-> 0, visited |-> {},
     live |-> TRUE, smap |-> EmptyMap, loaded |-> NoItem, loads |-> 0,
     fired |-> <<>>, res |-> "none", out |-> NoItem, list |-> <<>>, n |-> 0]

Init ==
    /\ now = 0
    /\ heap = [i \in ItemIds |-> FreeItem]
    /\ items = EmptyMap
    /\ cleanupTimer = NilTimer
    /\ orphanTimers = EmptyBag
    /\ cleanupInterval = 0
    /\ loadData = FALSE
    /\ addedItem = <<>>
    /\ aboutToDeleteItem = <<>>
    /\ tableLock = NoThread
    /\ pc = [p \in Threads |-> "idle"]
    /\ loc = [p \in Threads |-> InitLoc]
    /\ opsLeft = MaxOps
    /\ cache = EmptyCache /\ tables = <<>>

\* the table after construction and the registration calls that leave it with
\* the added-item callbacks added, the delete callbacks deleting and the
\* loader (or none), with n calls still to make
Configured(added, deleting, loader, n) ==
    /\ now = 0
    /\ heap = [i \in ItemIds |-> FreeItem]
    /\ items = EmptyMap
    /\ cleanupTimer = NilTimer
    /\ orphanTimers = EmptyBag
    /\ cleanupInterval = 0
    /\ loadData = loader
    /\ addedItem = added
    /\ aboutToDeleteItem = deleting
    /\ tableLock = NoThread
    /\ pc = [p \in Threads |-> "idle"]
    /\ loc = [p \in Threads |-> InitLoc]
    /\ opsLeft = n
    /\ cache = EmptyCache /\ tables = <<>>

\* ------------------------------------------------------------------ helpers
\* (variant: an item expires only after its lifespan has passed)
Expired_Late(t, accessedOn, lifeSpan) == t - accessedOn > lifeSpan

\* "now.Sub(accessedOn) >= lifeSpan": the item has exceeded its lifespan
Expired(t, accessedOn, lifeSpan) == t - accessedOn >= lifeSpan

\* (variant: the whole lifespan in place of the time left)
Smallest_WholeLife(smallest, t, accessedOn, lifeSpan) ==
    IF smallest = 0 \/ lifeSpan < smallest THEN lifeSpan ELSE smallest

\* the running minimum of the time left, 0 standing for "none yet"
Smallest(smallest, t, accessedOn, lifeSpan) ==
    IF smallest = 0 \/ lifeSpan - (t - accessedOn) < smallest
    THEN lifeSpan - (t - accessedOn)
    ELSE smallest

\* (variant: a check only when no interval is set)
NeedsCheck_OnlyFirst(lifeSpan, expDur) == lifeSpan > 0 /\ expDur = 0

\* addInternal's test for running an expiration check of its own
NeedsCheck(lifeSpan, expDur) == lifeSpan > 0 /\ (expDur = 0 \/ lifeSpan < expDur)

\* (variant: an entry that is there is kept)
Insert_IfAbsent(m, key, id) == IF m[key] = NoItem THEN [m EXCEPT ![key] = id] ELSE m

\* table.items[key] = id
Insert(m, key, id) == [m EXCEPT ![key] = id]

\* (variant: the entry stays)
Remove_Keep(m, key) == m

\* delete(table.items, key)
Remove(m, key) == [m EXCEPT ![key] = NoItem]

\* (variant: the access is not counted)
KeepAliveItem_NoCount(it) == [it EXCEPT !.accessedOn = now]

\* item.KeepAlive()
KeepAliveItem(it) == [it EXCEPT !.accessedOn = now, !.accessCount = @ + 1]

\* the *CacheItem Value hands back after a load: "return item, nil"
LoadedResult(loaded, inserted) == loaded

\* the callbacks of list cbs, each called with arg, in list order
Calls(cbs, arg) == [i \in 1..Len(cbs) |-> <<cbs[i], arg>>]

InList(f, list) == \E i \in 1..Len(list) : list[i] = f

\* thread q is inside deleteInternal with item i's RLock taken: from r.RLock()
\* to the deferred r.RUnlock(), the item's aboutToExpire callbacks included
HoldsRLock(q, i) ==
    /\ pc[q] \in {"delRelock", "expireLoop", "cbValue", "cbKeepAlive", "cbAddCallback"}
    /\ loc[q].r = i

ItemRLocked(i) == \E q \in Goroutines : HoldsRLock(q, i)

\* threads whose "for key, item := range table.items" is suspended inside
\* deleteInternal, and still ranges over the map table.items points to
Ranging == {q \in Goroutines : /\ pc[q] \in {"delCallbacks", "delRelock", "expireLoop",
                                              "cbValue", "cbKeepAlive", "cbAddCallback"}
                               /\ loc[q].op # "Delete"
                               /\ loc[q].live}

\* what a thread keeps of a finished call: the call and what it returned
Finished(l, res, out) ==
    [InitLoc EXCEPT !.op = l.op, !.key = l.key, !.item = l.item, !.loaded = l.loaded,
                    !.loads = l.loads, !.fired = l.fired, !.res = res, !.out = out,
                    !.list = l.list, !.n = l.n]

\* (variant: NotFoundAdd answers false after it has inserted)
AfterAdd_False(l) ==
    CASE l.op = "Add"         -> Finished(l, "ok", l.item)
      [] l.op = "NotFoundAdd" -> Finished(l, "false", NoItem)
      [] l.op = "Value"       -> Finished(l, "ok", LoadedResult(l.loaded, l.item))
      [] OTHER                -> InitLoc

\* addInternal has returned: back in Add, NotFoundAdd or Value
AfterAdd(l) ==
    CASE l.op = "Add"         -> Finished(l, "ok", l.item)
      [] l.op = "NotFoundAdd" -> Finished(l, "true", NoItem)
      [] l.op = "Value"       -> Finished(l, "ok", LoadedResult(l.loaded, l.item))
      [] OTHER                -> InitLoc

\* ------------------------------------------------------------------ callers
\* Goroutines have no identity: a new call, or a timer's goroutine, is given
\* to the first thread that is idle.
Idle(p) == pc[p] = "idle" /\ \A q \in Goroutines : q < p => pc[q] # "idle"

\* Values are opaque to the table: the first value stored is named "d1".
Values == IF \E i \in ItemIds : heap[i].used THEN Data ELSE {"d1"}

\* ------------------------------------------------------------------ Add
\* (variant: the callbacks are called last to first)
AddCallbacks_Reversed(l) ==
    [l EXCEPT !.fired = @ \o [i \in 1..Len(l.cbs) |-> <<l.cbs[Len(l.cbs) + 1 - i], l.item>>]]

\* addInternal after its Unlock: the addedItem callbacks, and where it goes
\* on: into expirationCheck, or back to its caller
AddCallbacks(l) == [l EXCEPT !.fired = @ \o Calls(l.cbs, l.item)]

AfterCallbacks(l, lifeSpan) ==
    IF NeedsCheck(lifeSpan, l.expDur)
    THEN [pc |-> "scanLock", loc |-> AddCallbacks(l)]
    ELSE [pc |-> "done", loc |-> AfterAdd(AddCallbacks(l))]

\* addInternal, called with the lock held: insert, snapshot, Unlock, callbacks.
\* it is the new item, S the suspended ranges that will skip the new entry:
\* an entry created while a range over the map is suspended may be produced
\* by that range or skipped by it.
AddInternal(p, l, it, S) ==
    LET l2 == [l EXCEPT !.expDur = cleanupInterval, !.cbs = addedItem]
    IN  /\ items' = Insert(items, l.key, l.item)
        /\ loc' = [q \in Goroutines |->
                     IF q = p
                     THEN AfterCallbacks(l2, it.lifeSpan).loc
                     ELSE IF q \in Ranging /\ items[l.key] = NoItem
                     THEN [loc[q] EXCEPT !.visited =
                              IF q \in S THEN @ \cup {l.key} ELSE @ \ {l.key}]
                     ELSE loc[q]]
        /\ pc' = [pc EXCEPT ![p] = AfterCallbacks(l2, it.lifeSpan).pc]
        /\ heap' = Collect([heap EXCEPT ![l.item] = it], items', loc')

\* the ranges that may skip an entry made under key
Skippers(key) == IF items[key] = NoItem THEN SUBSET Ranging ELSE {{}}

\* Add: NewCacheItem, table.Lock(), addInternal
Add(p, key, lifeSpan, data) ==
    /\ Idle(p) /\ opsLeft > 0 /\ tableLock = NoThread
    /\ opsLeft' = opsLeft - 1
    /\ \E S \in Skippers(key) :
          AddInternal(p, [InitLoc EXCEPT !.op = "Add", !.key = key, !.item = NewId(heap)],
                      NewCacheItem(key, lifeSpan, data), S)
    /\ UNCHANGED <<now, cleanupTimer, orphanTimers, cleanupInterval, loadData,
                   addedItem, aboutToDeleteItem, tableLock>>
    /\ UNCHANGED registry

\* Value's table.Add(key, item.lifeSpan, item.data) after a load
AddLoaded(p) ==
    /\ pc[p] = "addLock" /\ tableLock = NoThread
    /\ \E S \in Skippers(loc[p].key) :
          AddInternal(p, [loc[p] EXCEPT !.item = NewId(heap)],
                      NewCacheItem(loc[p].key, heap[loc[p].loaded].lifeSpan,
                                   heap[loc[p].loaded].data), S)
    /\ UNCHANGED <<now, cleanupTimer, orphanTimers, cleanupInterval, loadData,
                   addedItem, aboutToDeleteItem, tableLock, opsLeft>>
    /\ UNCHANGED registry

\* (variant: no existence test)
NotFoundAdd_Unchecked(p, key, lifeSpan, data) ==
    /\ Idle(p) /\ opsLeft > 0 /\ tableLock = NoThread
    /\ opsLeft' = opsLeft - 1
    /\ \E S \in Skippers(key) :
          AddInternal(p, [InitLoc EXCEPT !.op = "NotFoundAdd", !.key = key,
                                         !.item = NewId(heap)],
                      NewCacheItem(key, lifeSpan, data), S)
    /\ UNCHANGED <<now, cleanupTimer, orphanTimers, cleanupInterval, loadData,
                   addedItem, aboutToDeleteItem, tableLock>>
    /\ UNCHANGED registry

\* NotFoundAdd: Lock, the existence test, and either Unlock and false or
\* NewCacheItem and addInternal
NotFoundAdd(p, key, lifeSpan, data) ==
    /\ Idle(p) /\ opsLeft > 0 /\ tableLock = NoThread
    /\ opsLeft' = opsLeft - 1
    /\ LET l == [InitLoc EXCEPT !.op = "NotFoundAdd", !.key = key]
       IN  IF items[key] # NoItem
           THEN /\ pc' = [pc EXCEPT ![p] = "done"]
                /\ loc' = [loc EXCEPT ![p] = Finished(l, "false", NoItem)]
                /\ UNCHANGED items
                /\ heap' = Collect(heap, items', loc')
           ELSE \E S \in Skippers(key) :
                   AddInternal(p, [l EXCEPT !.item = NewId(heap)],
                               NewCacheItem(key, lifeSpan, data), S)
    /\ UNCHANGED <<now, cleanupTimer, orphanTimers, cleanupInterval, loadData,
                   addedItem, aboutToDeleteItem, tableLock>>
    /\ UNCHANGED registry

\* ------------------------------------------------------------------ expirationCheck
\* table.Lock(); cleanupTimer.Stop(); now := time.Now(); smallestDuration := 0
ScanLock(p) ==
    /\ pc[p] = "scanLock" /\ tableLock = NoThread
    /\ tableLock' = p
    /\ cleanupTimer' = StopTimer(cleanupTimer)
    /\ loc' = [loc EXCEPT ![p].snow = now, ![p].smallest = 0, ![p].visited = {},
                          ![p].live = TRUE, ![p].smap = EmptyMap,
                          ![p].expDur = 0, ![p].cbs = <<>>]
    /\ pc' = [pc EXCEPT ![p] = "scanLoop"]
    /\ UNCHANGED <<now, items, orphanTimers, cleanupInterval, loadData,
                   addedItem, aboutToDeleteItem, opsLeft>>
    /\ heap' = Collect(heap, items', loc')
    /\ UNCHANGED registry

\* the map the thread's range statement iterates: table.items as it was when
\* the range began, which is the table's map until Flush replaces that
RangeMap(p) == IF loc[p].live THEN items ELSE loc[p].smap

\* (variant: the lock is kept for the callbacks)
DeleteLookup_Locked(p, l, key, back) ==
    IF items[key] = NoItem
    THEN /\ loc' = [loc EXCEPT ![p] = back]
         /\ UNCHANGED <<pc, tableLock>>
    ELSE /\ loc' = [loc EXCEPT ![p] = [l EXCEPT !.r = items[key], !.dkey = key,
                                                !.cbs = aboutToDeleteItem]]
         /\ pc' = [pc EXCEPT ![p] = "delCallbacks"]
         /\ UNCHANGED tableLock

\* deleteInternal up to its Unlock, called with the lock held: the lookup,
\* and for a key that is there the snapshot of the callbacks and Unlock
DeleteLookup(p, l, key, back) ==
    IF items[key] = NoItem
    THEN /\ loc' = [loc EXCEPT ![p] = back]
         /\ UNCHANGED <<pc, tableLock>>
    ELSE /\ loc' = [loc EXCEPT ![p] = [l EXCEPT !.r = items[key], !.dkey = key,
                                                !.cbs = aboutToDeleteItem]]
         /\ pc' = [pc EXCEPT ![p] = "delCallbacks"]
         /\ tableLock' = NoThread

\* one iteration of "for key, item := range table.items"
ScanStep(p) ==
    /\ pc[p] = "scanLoop"
    /\ \E key \in Keys :
          /\ RangeMap(p)[key] # NoItem /\ key \notin loc[p].visited
          /\ LET it == heap[RangeMap(p)[key]]
                 l  == [loc[p] EXCEPT !.visited = @ \cup {key}]
             IN  IF it.lifeSpan = 0
                 THEN /\ loc' = [loc EXCEPT ![p] = l]
                      /\ UNCHANGED <<pc, tableLock>>
                 ELSE IF Expired(l.snow, it.accessedOn, it.lifeSpan)
                 THEN DeleteLookup(p, l, key, l)
                 ELSE /\ loc' = [loc EXCEPT ![p] =
                            [l EXCEPT !.smallest =
                                Smallest(@, l.snow, it.accessedOn, it.lifeSpan)]]
                      /\ UNCHANGED <<pc, tableLock>>
    /\ UNCHANGED <<now, tableVars, opsLeft>>
    /\ heap' = Collect(heap, items', loc')
    /\ UNCHANGED registry

\* (variant: the check returns without its Unlock)
ScanFinish_KeepLock(p) ==
    /\ pc[p] = "scanLoop"
    /\ \A key \in Keys : RangeMap(p)[key] = NoItem \/ key \in loc[p].visited
    /\ cleanupInterval' = loc[p].smallest
    /\ IF loc[p].smallest > 0
       THEN /\ cleanupTimer' = AfterFunc(loc[p].smallest)
            /\ orphanTimers' = IF cleanupTimer.armed
                               THEN orphanTimers (+) SetToBag({cleanupTimer.at})
                               ELSE orphanTimers
       ELSE UNCHANGED <<cleanupTimer, orphanTimers>>
    /\ UNCHANGED tableLock
    /\ IF loc[p].op = "expirationCheck"
       THEN /\ pc' = [pc EXCEPT ![p] = "idle"]
            /\ loc' = [loc EXCEPT ![p] = InitLoc]
       ELSE /\ pc' = [pc EXCEPT ![p] = "done"]
            /\ loc' = [loc EXCEPT ![p] = AfterAdd(loc[p])]
    /\ UNCHANGED <<now, items, loadData, addedItem, aboutToDeleteItem, opsLeft>>
    /\ heap' = Collect(heap, items', loc')
    /\ UNCHANGED registry

\* after the loop: cleanupInterval, the next timer, Unlock
ScanFinish(p) ==
    /\ pc[p] = "scanLoop"
    /\ \A key \in Keys : RangeMap(p)[key] = NoItem \/ key \in loc[p].visited
    /\ cleanupInterval' = loc[p].smallest
    /\ IF loc[p].smallest > 0
       THEN /\ cleanupTimer' = AfterFunc(loc[p].smallest)
            /\ orphanTimers' = IF cleanupTimer.armed
                               THEN orphanTimers (+) SetToBag({cleanupTimer.at})
                               ELSE orphanTimers
       ELSE UNCHANGED <<cleanupTimer, orphanTimers>>
    /\ tableLock' = NoThread
    /\ IF loc[p].op = "expirationCheck"
       THEN /\ pc' = [pc EXCEPT ![p] = "idle"]
            /\ loc' = [loc EXCEPT ![p] = InitLoc]
       ELSE /\ pc' = [pc EXCEPT ![p] = "done"]
            /\ loc' = [loc EXCEPT ![p] = AfterAdd(loc[p])]
    /\ UNCHANGED <<now, items, loadData, addedItem, aboutToDeleteItem, opsLeft>>
    /\ heap' = Collect(heap, items', loc')
    /\ UNCHANGED registry

\* ------------------------------------------------------------------ deleteInternal
\* (variant: the item's callbacks are called before the table's)
DelCallbacks_ItemFirst(p) ==
    /\ pc[p] = "delCallbacks"
    /\ loc' = [loc EXCEPT ![p].fired =
                  @ \o Calls(heap[loc[p].r].aboutToExpire, loc[p].dkey)
                    \o Calls(loc[p].cbs, loc[p].r)]
    /\ pc' = [pc EXCEPT ![p] = "delRelock"]
    /\ UNCHANGED <<now, heap, tableVars, tableLock, opsLeft>>
    /\ UNCHANGED registry

\* deleteInternal between its Unlock and its Lock: the table's
\* aboutToDeleteItem callbacks with the item, then r.RLock() and the item's
\* aboutToExpire callbacks with the key
DelCallbacks(p) ==
    /\ pc[p] = "delCallbacks"
    /\ loc' = [loc EXCEPT ![p].fired =
                  @ \o Calls(loc[p].cbs, loc[p].r)
                    \o Calls(heap[loc[p].r].aboutToExpire, loc[p].dkey)]
    /\ pc' = [pc EXCEPT ![p] = "delRelock"]
    /\ UNCHANGED <<now, heap, tableVars, tableLock, opsLeft>>
    /\ UNCHANGED registry

\* table.Lock(); delete(table.items, key); return r, nil (and r.RUnlock());
\* Delete then unlocks, expirationCheck goes on with its loop
DelRelock(p) ==
    /\ pc[p] = "delRelock" /\ tableLock = NoThread
    /\ items' = Remove(items, loc[p].dkey)
    /\ IF loc[p].op = "Delete"
       THEN /\ pc' = [pc EXCEPT ![p] = "done"]
            /\ loc' = [loc EXCEPT ![p] = Finished(loc[p], "ok", loc[p].r)]
            /\ UNCHANGED tableLock
       ELSE /\ pc' = [pc EXCEPT ![p] = "scanLoop"]
            /\ tableLock' = p
            /\ loc' = [loc EXCEPT ![p].r = NoItem, ![p].dkey = "k1", ![p].cbs = <<>>]
    /\ UNCHANGED <<now, cleanupTimer, orphanTimers, cleanupInterval, loadData,
                   addedItem, aboutToDeleteItem, opsLeft>>
    /\ heap' = Collect(heap, items', loc')
    /\ UNCHANGED registry

\* Delete: Lock, deleteInternal; a key that is not there: ErrKeyNotFound, Unlock
Delete(p, key) ==
    /\ Idle(p) /\ opsLeft > 0 /\ tableLock = NoThread
    /\ opsLeft' = opsLeft - 1
    /\ LET l == [InitLoc EXCEPT !.op = "Delete", !.key = key]
       IN  IF items[key] = NoItem
           THEN /\ pc' = [pc EXCEPT ![p] = "done"]
                /\ loc' = [loc EXCEPT ![p] = Finished(l, "ErrKeyNotFound", NoItem)]
           ELSE /\ pc' = [pc EXCEPT ![p] = "delCallbacks"]
                /\ loc' = [loc EXCEPT ![p] = [l EXCEPT !.r = items[key], !.dkey = key,
                                                       !.cbs = aboutToDeleteItem]]
    /\ UNCHANGED <<now, tableVars, tableLock>>
    /\ heap' = Collect(heap, items', loc')
    /\ UNCHANGED registry

\* ------------------------------------------------------------------ Value
\* Value: RLock, the lookup, loadData, RUnlock, and the branch taken
Value(p, key) ==
    /\ Idle(p) /\ opsLeft > 0 /\ tableLock = NoThread
    /\ opsLeft' = opsLeft - 1
    /\ LET l == [InitLoc EXCEPT !.op = "Value", !.key = key, !.r = items[key]]
       IN  IF items[key] # NoItem
           THEN /\ pc' = [pc EXCEPT ![p] = "keepAlive"]
                /\ loc' = [loc EXCEPT ![p] = l]
           ELSE IF loadData
           THEN /\ pc' = [pc EXCEPT ![p] = "load"]
                /\ loc' = [loc EXCEPT ![p] = l]
           ELSE /\ pc' = [pc EXCEPT ![p] = "done"]
                /\ loc' = [loc EXCEPT ![p] = Finished(l, "ErrKeyNotFound", NoItem)]
    /\ UNCHANGED <<now, tableVars, tableLock>>
    /\ heap' = Collect(heap, items', loc')
    /\ UNCHANGED registry

\* r.KeepAlive(); return r, nil
KeepAlive(p) ==
    /\ pc[p] = "keepAlive" /\ ~ItemRLocked(loc[p].r)
    /\ pc' = [pc EXCEPT ![p] = "done"]
    /\ loc' = [loc EXCEPT ![p] = Finished(loc[p], "ok", loc[p].r)]
    /\ UNCHANGED <<now, tableVars, tableLock, opsLeft>>
    /\ heap' = Collect([heap EXCEPT ![loc[p].r] = KeepAliveItem(@)], items', loc')
    /\ UNCHANGED registry

\* (variant: a loader that returns nil is treated like no loader)
LoadNothing_KeyNotFound(p) ==
    /\ pc[p] = "load"
    /\ pc' = [pc EXCEPT ![p] = "done"]
    /\ loc' = [loc EXCEPT ![p] =
                  Finished([loc[p] EXCEPT !.loads = @ + 1], "ErrKeyNotFound", NoItem)]
    /\ UNCHANGED <<now, tableVars, tableLock, opsLeft>>
    /\ heap' = Collect(heap, items', loc')
    /\ UNCHANGED registry

\* item := loadData(key, args...) returning nil
LoadNothing(p) ==
    /\ pc[p] = "load"
    /\ pc' = [pc EXCEPT ![p] = "done"]
    /\ loc' = [loc EXCEPT ![p] =
                  Finished([loc[p] EXCEPT !.loads = @ + 1], "ErrKeyNotFoundOrLoadable", NoItem)]
    /\ UNCHANGED <<now, tableVars, tableLock, opsLeft>>
    /\ heap' = Collect(heap, items', loc')
    /\ UNCHANGED registry

\* item := loadData(key, args...) returning an item the loader made with
\* NewCacheItem; Value goes on to table.Add(key, item.lifeSpan, item.data)
LoadItem(p, lifeSpan, data) ==
    /\ pc[p] = "load"
    /\ loc' = [loc EXCEPT ![p].loads = @ + 1, ![p].loaded = NewId(heap)]
    /\ pc' = [pc EXCEPT ![p] = "addLock"]
    /\ UNCHANGED <<now, tableVars, tableLock, opsLeft>>
    /\ heap' = [heap EXCEPT ![NewId(heap)] = NewCacheItem(loc[p].key, lifeSpan, data)]
    /\ UNCHANGED registry

\* ------------------------------------------------------------------ Flush
\* (variant: cleanupInterval is left as it is)
Flush_KeepInterval(p) ==
    /\ Idle(p) /\ opsLeft > 0 /\ tableLock = NoThread
    /\ opsLeft' = opsLeft - 1
    /\ items' = EmptyMap
    /\ cleanupTimer' = StopTimer(cleanupTimer)
    /\ loc' = [q \in Goroutines |->
                 IF q = p THEN Finished([InitLoc EXCEPT !.op = "Flush"], "ok", NoItem)
                 ELSE IF q \in Ranging
                 THEN [loc[q] EXCEPT !.live = FALSE, !.smap = items]
                 ELSE loc[q]]
    /\ pc' = [pc EXCEPT ![p] = "done"]
    /\ UNCHANGED <<now, orphanTimers, cleanupInterval, loadData, addedItem,
                   aboutToDeleteItem, tableLock>>
    /\ heap' = Collect(heap, items', loc')
    /\ UNCHANGED registry

Flush(p) ==
    /\ Idle(p) /\ opsLeft > 0 /\ tableLock = NoThread
    /\ opsLeft' = opsLeft - 1
    /\ items' = EmptyMap
    /\ cleanupInterval' = 0
    /\ cleanupTimer' = StopTimer(cleanupTimer)
    /\ loc' = [q \in Goroutines |->
                 IF q = p THEN Finished([InitLoc EXCEPT !.op = "Flush"], "ok", NoItem)
                 ELSE IF q \in Ranging
                 THEN [loc[q] EXCEPT !.live = FALSE, !.smap = items]
                 ELSE loc[q]]
    /\ pc' = [pc EXCEPT ![p] = "done"]
    /\ UNCHANGED <<now, orphanTimers, loadData, addedItem, aboutToDeleteItem,
                   tableLock>>
    /\ heap' = Collect(heap, items', loc')
    /\ UNCHANGED registry

\* ------------------------------------------------------------------ configuration
\* the table is configured before it is used: no call on its items was made yet
SetUp == opsLeft = MaxOps /\ now = 0 /\ \A q \in Goroutines : pc[q] = "idle"

SetDataLoader(p) ==
    /\ Idle(p) /\ SetUp /\ tableLock = NoThread
    /\ ~loadData
    /\ loadData' = TRUE
    /\ UNCHANGED <<now, heap, items, cleanupTimer, orphanTimers, cleanupInterval,
                   addedItem, aboutToDeleteItem, tableLock, pc, loc, opsLeft>>
    /\ UNCHANGED registry

AddAddedItemCallback(p, f) ==
    /\ Idle(p) /\ SetUp /\ tableLock = NoThread
    /\ ~InList(f, addedItem)
    /\ addedItem' = Append(addedItem, f)
    /\ UNCHANGED <<now, heap, items, cleanupTimer, orphanTimers, cleanupInterval,
                   loadData, aboutToDeleteItem, tableLock, pc, loc, opsLeft>>
    /\ UNCHANGED registry

AddAboutToDeleteItemCallback(p, f) ==
    /\ Idle(p) /\ SetUp /\ tableLock = NoThread
    /\ ~InList(f, aboutToDeleteItem)
    /\ aboutToDeleteItem' = Append(aboutToDeleteItem, f)
    /\ UNCHANGED <<now, heap, items, cleanupTimer, orphanTimers, cleanupInterval,
                   loadData, addedItem, tableLock, pc, loc, opsLeft>>
    /\ UNCHANGED registry

\* item.AddAboutToExpireCallback(f), on an item the caller was handed
AddAboutToExpireCallback(p, i, f) ==
    /\ Idle(p) /\ opsLeft > 0
    /\ \E k \in Keys : items[k] = i
    /\ ~ItemRLocked(i)
    /\ ~InList(f, heap[i].aboutToExpire)
    /\ opsLeft' = opsLeft - 1
    /\ heap' = [heap EXCEPT ![i].aboutToExpire = Append(@, f)]
    /\ UNCHANGED <<now, tableVars, tableLock, pc, loc>>
    /\ UNCHANGED registry

\* ------------------------------------------------------------------ time
\* an armed timer whose time has come
Due(t) == t.armed /\ t.at <= now
DueOrphans == {d \in BagToSet(orphanTimers) : d <= now}

\* Time passes between calls, not within them: a call's steps take no time,
\* and a timer fires when its time has come.
Tick ==
    /\ now < MaxTime
    /\ \A q \in Goroutines : pc[q] = "idle"
    /\ ~Due(cleanupTimer) /\ DueOrphans = {}
    /\ now' = now + 1
    /\ UNCHANGED <<heap, tableVars, tableLock, pc, loc, opsLeft>>
    /\ UNCHANGED registry

\* the timer the table points to fires: "go table.expirationCheck()"
FireTimer(p) ==
    /\ Idle(p)
    /\ Due(cleanupTimer)
    /\ cleanupTimer' = StoppedTimer
    /\ pc' = [pc EXCEPT ![p] = "scanLock"]
    /\ loc' = [loc EXCEPT ![p] = [InitLoc EXCEPT !.op = "expirationCheck"]]
    /\ UNCHANGED <<now, items, orphanTimers, cleanupInterval, loadData,
                   addedItem, aboutToDeleteItem, tableLock, opsLeft>>
    /\ heap' = Collect(heap, items', loc')
    /\ UNCHANGED registry

\* a timer the table no longer points to fires
FireOrphan(p) ==
    /\ Idle(p)
    /\ \E d \in DueOrphans : orphanTimers' = orphanTimers (-) SetToBag({d})
    /\ pc' = [pc EXCEPT ![p] = "scanLock"]
    /\ loc' = [loc EXCEPT ![p] = [InitLoc EXCEPT !.op = "expirationCheck"]]
    /\ UNCHANGED <<now, items, cleanupTimer, cleanupInterval, loadData,
                   addedItem, aboutToDeleteItem, tableLock, opsLeft>>
    /\ heap' = Collect(heap, items', loc')
    /\ UNCHANGED registry

\* the caller takes the result and is free for its next call
Return(p) ==
    /\ pc[p] = "done"
    /\ pc' = [pc EXCEPT ![p] = "idle"]
    /\ loc' = [loc EXCEPT ![p] = InitLoc]
    /\ UNCHANGED <<now, tableVars, tableLock, opsLeft>>
    /\ heap' = Collect(heap, items', loc')
    /\ UNCHANGED registry

\* ------------------------------------------------------------------ specification
Call(p) ==
    \/ \E key \in Keys, lifeSpan \in LifeSpans, data \in Values :
          \/ Add(p, key, lifeSpan, data)
          \/ NotFoundAdd(p, key, lifeSpan, data)
    \/ \E key \in Keys : Delete(p, key) \/ Value(p, key)
    \/ Flush(p)
    \/ SetDataLoader(p)
    \/ \E f \in AddedCallbacks : AddAddedItemCallback(p, f)
    \/ \E f \in DeleteCallbacks : AddAboutToDeleteItemCallback(p, f)
    \/ \E i \in ItemIds, f \in ExpireCallbacks : AddAboutToExpireCallback(p, i, f)

Step(p) ==
    \/ AddLoaded(p)
    \/ ScanLock(p) \/ ScanStep(p) \/ ScanFinish(p)
    \/ DelCallbacks(p) \/ DelRelock(p)
    \/ KeepAlive(p) \/ LoadNothing(p)
    \/ \E lifeSpan \in LifeSpans, data \in Values : LoadItem(p, lifeSpan, data)
    \/ Return(p)

Next ==
    \/ Tick
    \/ \E p \in Threads : FireTimer(p) \/ FireOrphan(p) \/ Call(p) \/ Step(p)

Spec == Init /\ [][Next]_vars


\* Calls made one at a time: a thread takes a step only while every other
\* thread is idle.  (No timer is orphaned then, so FireOrphan has no part.)
Alone(p) == \A q \in Threads : q # p => pc[q] = "idle"

NextSeq ==
    \/ Tick
    \/ \E p \in Threads : Alone(p) /\ (FireTimer(p) \/ Call(p) \/ Step(p))

SpecSeq == Init /\ [][NextSeq]_vars

\* Concurrent Add and NotFoundAdd calls and the expiration checks, under the
\* scheduling Go gives: a goroutine that can take a step takes it, a timer
\* whose time has come fires, and time passes.
NextLive ==
    \/ Tick
    \/ \E p \in Threads :
          \/ FireTimer(p) \/ FireOrphan(p)
          \/ \E key \in Keys, lifeSpan \in LifeSpans, data \in {"d1"} :
                Add(p, key, lifeSpan, data) \/ NotFoundAdd(p, key, lifeSpan, data)
          \/ ScanLock(p) \/ ScanStep(p) \/ ScanFinish(p)
          \/ DelCallbacks(p) \/ DelRelock(p) \/ Return(p)

Progress(p) ==
    \/ FireTimer(p) \/ FireOrphan(p)
    \/ ScanLock(p) \/ ScanStep(p) \/ ScanFinish(p)
    \/ DelCallbacks(p) \/ DelRelock(p) \/ Return(p)

SpecLive ==
    /\ Init /\ [][NextLive]_vars
    /\ WF_vars(Tick)
    /\ \A p \in Threads : WF_vars(Progress(p))

\* ------------------------------------------------------------------ Flush, alone
\* Add, AddAboutToExpireCallback and Flush, called one at a time on a table
\* with a delete callback registered, with the expiration checks
FlushOps == MaxOps + 2

NextFlush ==
    \/ Tick
    \/ \E p \in Threads :
          /\ Alone(p)
          /\ \/ FireTimer(p)
             \/ \E key \in Keys, lifeSpan \in LifeSpans : Add(p, key, lifeSpan, "d1")
             \/ \E i \in ItemIds, f \in ExpireCallbacks : AddAboutToExpireCallback(p, i, f)
             \/ Flush(p)
             \/ ScanLock(p) \/ ScanStep(p) \/ ScanFinish(p)
             \/ DelCallbacks(p) \/ DelRelock(p) \/ Return(p)

SpecFlush == Configured(<<>>, <<"x1">>, FALSE, FlushOps) /\ [][NextFlush]_vars

\* ------------------------------------------------------------------ callbacks that call back
\* Expire callbacks that call back into the cache: "callsValue" calls
\* table.Value(key) with the key it is given, "callsAdd" calls
\* AddAboutToExpireCallback on the item it was registered on.
Reentering == {"callsValue", "callsAdd"}

ReenterOps == MaxOps + 1

\* deleteInternal from its Unlock to the range over r.aboutToExpire: the
\* table's aboutToDeleteItem callbacks with the item, r.RLock(), and the
\* slice the range goes over (kept in cbs)
DelTableCallbacks(p) ==
    /\ pc[p] = "delCallbacks"
    /\ loc' = [loc EXCEPT ![p].fired = @ \o Calls(loc[p].cbs, loc[p].r),
                          ![p].cbs = heap[loc[p].r].aboutToExpire]
    /\ pc' = [pc EXCEPT ![p] = "expireLoop"]
    /\ UNCHANGED <<now, heap, tableVars, tableLock, opsLeft>>
    /\ UNCHANGED registry

\* "for _, callback := range r.aboutToExpire { callback(key) }": the next
\* callback is called, and enters the call it makes; after the last one
\* deleteInternal goes on to table.Lock()
ExpireCallback(p) ==
    /\ pc[p] = "expireLoop"
    /\ IF loc[p].cbs = <<>>
       THEN /\ pc' = [pc EXCEPT ![p] = "delRelock"]
            /\ UNCHANGED loc
       ELSE LET f == Head(loc[p].cbs)
            IN  /\ loc' = [loc EXCEPT ![p].fired = Append(@, <<f, loc[p].dkey>>),
                                      ![p].cbs = Tail(@),
                                      ![p].out = IF f = "callsAdd" THEN loc[p].r ELSE NoItem]
                /\ pc' = [pc EXCEPT ![p] = CASE f = "callsValue" -> "cbValue"
                                             [] f = "callsAdd"   -> "cbAddCallback"
                                             [] OTHER            -> "expireLoop"]
    /\ UNCHANGED <<now, heap, tableVars, tableLock, opsLeft>>
    /\ UNCHANGED registry

\* the callback's table.Value(key), on a table with no loader: RLock, the
\* lookup, RUnlock; a key that is not there: ErrKeyNotFound, the callback returns
CbValue(p) ==
    /\ pc[p] = "cbValue" /\ tableLock = NoThread /\ ~loadData
    /\ IF items[loc[p].dkey] # NoItem
       THEN /\ pc' = [pc EXCEPT ![p] = "cbKeepAlive"]
            /\ loc' = [loc EXCEPT ![p].out = items[loc[p].dkey]]
       ELSE /\ pc' = [pc EXCEPT ![p] = "expireLoop"]
            /\ UNCHANGED loc
    /\ UNCHANGED <<now, heap, tableVars, tableLock, opsLeft>>
    /\ UNCHANGED registry

\* item.Lock() inside the callback, and what follows it: KeepAlive's two
\* assignments (Value's hit), or AddAboutToExpireCallback's append; Unlock,
\* and the callback returns
CbItemLock(p) ==
    /\ pc[p] \in {"cbKeepAlive", "cbAddCallback"}
    /\ ~ItemRLocked(loc[p].out)
    /\ pc' = [pc EXCEPT ![p] = "expireLoop"]
    /\ loc' = [loc EXCEPT ![p].out = NoItem]
    /\ heap' = Collect([heap EXCEPT ![loc[p].out] =
                           IF pc[p] = "cbKeepAlive"
                           THEN KeepAliveItem(@)
                           ELSE [@ EXCEPT !.aboutToExpire = Append(@, "e1")]],
                       items, loc')
    /\ UNCHANGED <<now, tableVars, tableLock, opsLeft>>
    /\ UNCHANGED registry

\* Add, Delete and the registration of expire callbacks that call back, by
\* concurrent callers, with the expiration checks
NextReenter ==
    \/ Tick
    \/ \E p \in Threads :
          \/ FireTimer(p) \/ FireOrphan(p)
          \/ \E key \in Keys, lifeSpan \in LifeSpans : Add(p, key, lifeSpan, "d1")
          \/ \E key \in Keys : Delete(p, key)
          \/ \E i \in ItemIds, f \in Reentering : AddAboutToExpireCallback(p, i, f)
          \/ ScanLock(p) \/ ScanStep(p) \/ ScanFinish(p)
          \/ DelTableCallbacks(p) \/ ExpireCallback(p) \/ CbValue(p) \/ CbItemLock(p)
          \/ DelRelock(p) \/ Return(p)

SpecReenter == Configured(<<>>, <<"x1">>, FALSE, ReenterOps) /\ [][NextReenter]_vars

\* ------------------------------------------------------------------ added-item callbacks
\* the callbacks a caller may register for added items
TwoAdded == {"a1", "a2"}

\* SetAddedItemCallback(f): the test of len(table.addedItem)
SetAddedItemCallback(p, f) ==
    /\ Idle(p) /\ opsLeft > 0
    /\ opsLeft' = opsLeft - 1
    /\ pc' = [pc EXCEPT ![p] = IF Len(addedItem) > 0 THEN "setRemove" ELSE "setAppend"]
    /\ loc' = [loc EXCEPT ![p] = [InitLoc EXCEPT !.op = "SetAddedItemCallback",
                                                 !.cbs = <<f>>]]
    /\ UNCHANGED <<now, heap, tableVars, tableLock>>
    /\ UNCHANGED registry

\* RemoveAddedItemCallbacks: Lock; table.addedItem = nil; Unlock
SetRemove(p) ==
    /\ pc[p] = "setRemove" /\ tableLock = NoThread
    /\ addedItem' = <<>>
    /\ pc' = [pc EXCEPT ![p] = "setAppend"]
    /\ UNCHANGED <<now, heap, items, cleanupTimer, orphanTimers, cleanupInterval,
                   loadData, aboutToDeleteItem, tableLock, loc, opsLeft>>
    /\ UNCHANGED registry

\* table.Lock(); table.addedItem = append(table.addedItem, f); Unlock
SetAppend(p) ==
    /\ pc[p] = "setAppend" /\ tableLock = NoThread
    /\ addedItem' = addedItem \o loc[p].cbs
    /\ pc' = [pc EXCEPT ![p] = "done"]
    /\ loc' = [loc EXCEPT ![p] = Finished(loc[p], "ok", NoItem)]
    /\ UNCHANGED <<now, heap, items, cleanupTimer, orphanTimers, cleanupInterval,
                   loadData, aboutToDeleteItem, tableLock, opsLeft>>
    /\ UNCHANGED registry

\* the registration of added-item callbacks, then Add, NotFoundAdd and
\* SetAddedItemCallback called one at a time, with the expiration checks
NextAdded ==
    \/ Tick
    \/ \E p \in Threads :
          /\ Alone(p)
          /\ \/ FireTimer(p)
             \/ \E f \in TwoAdded : AddAddedItemCallback(p, f) \/ SetAddedItemCallback(p, f)
             \/ SetRemove(p) \/ SetAppend(p)
             \/ \E key \in Keys, lifeSpan \in LifeSpans :
                   Add(p, key, lifeSpan, "d1") \/ NotFoundAdd(p, key, lifeSpan, "d1")
             \/ ScanLock(p) \/ ScanStep(p) \/ ScanFinish(p)
             \/ DelCallbacks(p) \/ DelRelock(p) \/ Return(p)

SpecAdded == Init /\ [][NextAdded]_vars

\* ------------------------------------------------------------------ the delete protocol, alone
\* the callbacks a caller may register for deletions, and on an item
TwoDelete == {"x1", "x2"}
TwoExpire == {"e1", "e2"}

DeleteOps == MaxOps + 2

\* a table with both delete callbacks registered, in one order or the other
InitDelete ==
    \E d \in {l \in [1..2 -> TwoDelete] : l[1] # l[2]} :
        Configured(<<>>, d, FALSE, DeleteOps)

\* Add, AddAboutToExpireCallback and Delete called one at a time, with the
\* expiration checks
NextDelete ==
    \/ Tick
    \/ \E p \in Threads :
          /\ Alone(p)
          /\ \/ FireTimer(p)
             \/ \E key \in Keys, lifeSpan \in LifeSpans : Add(p, key, lifeSpan, "d1")
             \/ \E i \in ItemIds, f \in TwoExpire : AddAboutToExpireCallback(p, i, f)
             \/ \E key \in Keys : Delete(p, key)
             \/ ScanLock(p) \/ ScanStep(p) \/ ScanFinish(p)
             \/ DelCallbacks(p) \/ DelRelock(p) \/ Return(p)

SpecDelete == InitDelete /\ [][NextDelete]_vars

\* ------------------------------------------------------------------ Exists, Count, Foreach, MostAccessed
\* the keys of table.items
KeysOf(m) == {k \in Keys : m[k] # NoItem}

\* the orders in which a range over the map, or a sort, may leave the set S
Orders(S) == {s \in [1..Cardinality(S) -> S] : \A i, j \in DOMAIN s : i # j => s[i] # s[j]}

\* (variant: Exists keeps the item it finds alive)
CallExists_KeepAlive(p, key) ==
    /\ Idle(p) /\ opsLeft > 0 /\ tableLock = NoThread
    /\ opsLeft' = opsLeft - 1
    /\ pc' = [pc EXCEPT ![p] = "done"]
    /\ loc' = [loc EXCEPT ![p] =
                  Finished([InitLoc EXCEPT !.op = "Exists", !.key = key],
                           IF items[key] # NoItem THEN "true" ELSE "false", NoItem)]
    /\ UNCHANGED <<now, tableVars, tableLock>>
    /\ heap' = IF items[key] # NoItem
               THEN [heap EXCEPT ![items[key]] = KeepAliveItem(@)]
               ELSE heap
    /\ UNCHANGED registry

\* Exists(key): RLock; _, ok := table.items[key]; return ok
CallExists(p, key) ==
    /\ Idle(p) /\ opsLeft > 0 /\ tableLock = NoThread
    /\ opsLeft' = opsLeft - 1
    /\ pc' = [pc EXCEPT ![p] = "done"]
    /\ loc' = [loc EXCEPT ![p] =
                  Finished([InitLoc EXCEPT !.op = "Exists", !.key = key],
                           IF items[key] # NoItem THEN "true" ELSE "false", NoItem)]
    /\ UNCHANGED <<now, tableVars, tableLock>>
    /\ heap' = Collect(heap, items', loc')
    /\ UNCHANGED registry

\* Count(): RLock; return len(table.items)
CallCount(p) ==
    /\ Idle(p) /\ opsLeft > 0 /\ tableLock = NoThread
    /\ opsLeft' = opsLeft - 1
    /\ pc' = [pc EXCEPT ![p] = "done"]
    /\ loc' = [loc EXCEPT ![p] =
                  Finished([InitLoc EXCEPT !.op = "Count", !.n = Cardinality(KeysOf(items))],
                           "ok", NoItem)]
    /\ UNCHANGED <<now, tableVars, tableLock>>
    /\ heap' = Collect(heap, items', loc')
    /\ UNCHANGED registry

\* Foreach(trans): RLock; trans(k, v) for every entry, in the order the range
\* over the map takes
Foreach(p) ==
    /\ Idle(p) /\ opsLeft > 0 /\ tableLock = NoThread
    /\ opsLeft' = opsLeft - 1
    /\ pc' = [pc EXCEPT ![p] = "done"]
    /\ \E s \in Orders(KeysOf(items)) :
          loc' = [loc EXCEPT ![p] =
                     Finished([InitLoc EXCEPT !.op = "Foreach",
                                   !.fired = [i \in DOMAIN s |-> <<"trans", items[s[i]]>>]],
                              "ok", NoItem)]
    /\ UNCHANGED <<now, tableVars, tableLock>>
    /\ heap' = Collect(heap, items', loc')
    /\ UNCHANGED registry

\* (variant: Less the other way round)
Less_Ascending(a, b) == a.AccessCount < b.AccessCount

\* CacheItemPairList.Less
Less(a, b) == a.AccessCount > b.AccessCount

\* the CacheItemPairs MostAccessed makes of the map
CacheItemPairs(m, h) ==
    {[Key |-> k, AccessCount |-> h[m[k]].accessCount] : k \in KeysOf(m)}

\* sort.Sort(p): the pairs in an order in which no pair is Less than one
\* before it (the sort is not stable: which of the orders is not fixed)
Sorted(P) == {s \in Orders(P) : \A i, j \in DOMAIN s : i < j => ~Less(s[j], s[i])}

\* the loop over the sorted pairs: "if c >= count break", the lookup, append, c++
RECURSIVE Take(_, _, _, _)
Take(s, c, count, m) ==
    IF s = <<>> \/ c >= count
    THEN <<>>
    ELSE (IF m[Head(s).Key] # NoItem THEN <<m[Head(s).Key]>> ELSE <<>>)
         \o Take(Tail(s), c + 1, count, m)

\* the counts MostAccessed is called with
Counts == (0 - 1)..(Cardinality(Keys) + 1)

\* MostAccessed(count): RLock, the pairs, the sort, the loop
MostAccessed(p, count) ==
    /\ Idle(p) /\ opsLeft > 0 /\ tableLock = NoThread
    /\ opsLeft' = opsLeft - 1
    /\ pc' = [pc EXCEPT ![p] = "done"]
    /\ \E s \in Sorted(CacheItemPairs(items, heap)) :
          loc' = [loc EXCEPT ![p] =
                     Finished([InitLoc EXCEPT !.op = "MostAccessed", !.n = count,
                                   !.list = Take(s, 0, count, items)],
                              "ok", NoItem)]
    /\ UNCHANGED <<now, tableVars, tableLock>>
    /\ heap' = Collect(heap, items', loc')
    /\ UNCHANGED registry

PeekOps == MaxOps + 1

\* Add, Value with a loader, and the calls that only look, called one at a
\* time, with the expiration checks
NextPeek ==
    \/ Tick
    \/ \E p \in Threads :
          /\ Alone(p)
          /\ \/ FireTimer(p)
             \/ \E key \in Keys, lifeSpan \in LifeSpans : Add(p, key, lifeSpan, "d1")
             \/ \E key \in Keys : Value(p, key) \/ CallExists(p, key)
             \/ CallCount(p) \/ Foreach(p)
             \/ \E count \in Counts : MostAccessed(p, count)
             \/ KeepAlive(p) \/ LoadNothing(p) \/ AddLoaded(p)
             \/ \E lifeSpan \in LifeSpans : LoadItem(p, lifeSpan, "d1")
             \/ ScanLock(p) \/ ScanStep(p) \/ ScanFinish(p)
             \/ DelCallbacks(p) \/ DelRelock(p) \/ Return(p)

SpecPeek == Configured(<<>>, <<>>, TRUE, PeekOps) /\ [][NextPeek]_vars

\* ------------------------------------------------------------------ MostAccessed, on tables with hits
\* the address of the item under each key
KeyId == [k \in Keys |-> IF k = "k1" THEN 1 ELSE 2]

\* A table of immortal items, each added at time 0 and then hit up to
\* MaxHits times by Value: hits[k] < 0 stands for no entry under k.
InitRank ==
    \E hits \in [Keys -> (0 - 1)..MaxHits] :
        /\ now = 0
        /\ items = [k \in Keys |-> IF hits[k] < 0 THEN NoItem ELSE KeyId[k]]
        /\ heap = [i \in ItemIds |->
                     IF \E k \in Keys : hits[k] >= 0 /\ KeyId[k] = i
                     THEN LET k == CHOOSE j \in Keys : KeyId[j] = i
                          IN  [NewCacheItem(k, 0, "d1") EXCEPT !.accessCount = hits[k]]
                     ELSE FreeItem]
        /\ cleanupTimer = NilTimer
        /\ orphanTimers = EmptyBag
        /\ cleanupInterval = 0
        /\ loadData = FALSE
        /\ addedItem = <<>>
        /\ aboutToDeleteItem = <<>>
        /\ tableLock = NoThread
        /\ pc = [p \in Threads |-> "idle"]
        /\ loc = [p \in Threads |-> InitLoc]
        /\ opsLeft = MaxOps
    /\ cache = EmptyCache /\ tables = <<>>

\* MostAccessed and Value on such a table
NextRank ==
    \E p \in Threads :
       \/ \E count \in Counts : MostAccessed(p, count)
       \/ \E key \in Keys : Value(p, key)
       \/ KeepAlive(p) \/ Return(p)

SpecRank == InitRank /\ [][NextRank]_vars

\* ------------------------------------------------------------------ Cache
RegistryOps == MaxOps + 2

\* Cache(table) up to "if !ok": mutex.RLock(), the lookup, RUnlock; a table
\* that is there is returned
Cache(p, name) ==
    /\ Idle(p) /\ opsLeft > 0
    /\ opsLeft' = opsLeft - 1
    /\ LET l == [InitLoc EXCEPT !.op = "Cache", !.key = name, !.n = cache[name]]
       IN  IF cache[name] # NoTable
           THEN /\ pc' = [pc EXCEPT ![p] = "done"]
                /\ loc' = [loc EXCEPT ![p] = Finished(l, "ok", NoItem)]
           ELSE /\ pc' = [pc EXCEPT ![p] = "cacheLock"]
                /\ loc' = [loc EXCEPT ![p] = l]
    /\ UNCHANGED <<now, heap, tableVars, tableLock, registry>>

\* (variant: no second lookup under the write lock)
CacheCreate_Unchecked(p) ==
    /\ pc[p] = "cacheLock"
    /\ tables' = Append(tables, loc[p].key)
    /\ cache' = [cache EXCEPT ![loc[p].key] = Len(tables) + 1]
    /\ pc' = [pc EXCEPT ![p] = "done"]
    /\ loc' = [loc EXCEPT ![p] = Finished([loc[p] EXCEPT !.n = Len(tables) + 1],
                                          "ok", NoItem)]
    /\ UNCHANGED <<now, heap, tableVars, tableLock, opsLeft>>

\* mutex.Lock(); the second lookup; a new CacheTable put in the map if there
\* is none; Unlock; return t
CacheCreate(p) ==
    /\ pc[p] = "cacheLock"
    /\ IF cache[loc[p].key] = NoTable
       THEN /\ tables' = Append(tables, loc[p].key)
            /\ cache' = [cache EXCEPT ![loc[p].key] = Len(tables) + 1]
       ELSE UNCHANGED registry
    /\ pc' = [pc EXCEPT ![p] = "done"]
    /\ loc' = [loc EXCEPT ![p] = Finished([loc[p] EXCEPT !.n = cache'[loc[p].key]],
                                          "ok", NoItem)]
    /\ UNCHANGED <<now, heap, tableVars, tableLock, opsLeft>>

\* concurrent calls of Cache
NextRegistry ==
    \E p \in Threads :
       \/ \E name \in Names : Cache(p, name)
       \/ CacheCreate(p)
       \/ Return(p)

SpecRegistry == Configured(<<>>, <<>>, FALSE, RegistryOps) /\ [][NextRegistry]_vars

\* ------------------------------------------------------------------ the locks, with three goroutines
\* sync.RWMutex: a goroutine blocked in Lock keeps later RLock calls waiting.
\* Delete, Value and the expiration checks with the items' locks taken the
\* way the RWMutex grants them, for three goroutines.
ThreeThreads == 1..3

LockOps == MaxOps + 1

\* a goroutine waits in item.Lock() for item i
WriterWaits(i) == \E q \in Goroutines : pc[q] = "keepAliveWait" /\ loc[q].r = i

\* KeepAlive's item.Lock() while the item is read-locked: the goroutine waits
KeepAliveLock(p) ==
    /\ pc[p] = "keepAlive" /\ ItemRLocked(loc[p].r)
    /\ pc' = [pc EXCEPT ![p] = "keepAliveWait"]
    /\ UNCHANGED <<now, heap, tableVars, tableLock, loc, opsLeft, registry>>

\* the readers are gone: item.Lock() returns, the two assignments, Unlock,
\* and Value returns the item
KeepAliveWake(p) ==
    /\ pc[p] = "keepAliveWait" /\ ~ItemRLocked(loc[p].r)
    /\ pc' = [pc EXCEPT ![p] = "done"]
    /\ loc' = [loc EXCEPT ![p] = Finished(loc[p], "ok", loc[p].r)]
    /\ UNCHANGED <<now, tableVars, tableLock, opsLeft, registry>>
    /\ heap' = Collect([heap EXCEPT ![loc[p].r] = KeepAliveItem(@)], items', loc')

\* one iteration of expirationCheck's loop: item.RLock() is granted only
\* while no goroutine waits in item.Lock() for that item
ScanStepRLock(p) ==
    /\ ScanStep(p)
    /\ \A key \in loc'[p].visited \ loc[p].visited : ~WriterWaits(RangeMap(p)[key])

\* deleteInternal between its Unlock and its Lock: r.RLock() is granted only
\* while no goroutine waits in r.Lock()
DelCallbacksRLock(p) ==
    /\ pc[p] = "delCallbacks" /\ ~WriterWaits(loc[p].r)
    /\ DelCallbacks(p)

\* a new table and three goroutines
InitLocks ==
    /\ now = 0
    /\ heap = [i \in ItemIds |-> FreeItem]
    /\ items = EmptyMap
    /\ cleanupTimer = NilTimer
    /\ orphanTimers = EmptyBag
    /\ cleanupInterval = 0
    /\ loadData = FALSE
    /\ addedItem = <<>>
    /\ aboutToDeleteItem = <<>>
    /\ tableLock = NoThread
    /\ pc = [p \in ThreeThreads |-> "idle"]
    /\ loc = [p \in ThreeThreads |-> InitLoc]
    /\ opsLeft = LockOps
    /\ cache = EmptyCache /\ tables = <<>>

\* the steps of a call that is under way, and of a check
Running(p) ==
    \/ KeepAlive(p) \/ KeepAliveLock(p) \/ KeepAliveWake(p)
    \/ ScanLock(p) \/ ScanStepRLock(p) \/ ScanFinish(p)
    \/ DelCallbacksRLock(p) \/ DelRelock(p)

NextLocks ==
    \/ Tick
    \/ \E p \in ThreeThreads :
          \/ FireTimer(p) \/ FireOrphan(p)
          \/ \E key \in Keys, lifeSpan \in LifeSpans : Add(p, key, lifeSpan, "d1")
          \/ \E key \in Keys : Delete(p, key) \/ Value(p, key)
          \/ Running(p)
          \/ Return(p)

SpecLocks == InitLocks /\ [][NextLocks]_vars

\* ------------------------------------------------------------------ SetAddedItemCallback, concurrently
\* the registration of added-item callbacks, then SetAddedItemCallback and
\* Add of immortal items by concurrent callers
NextSet ==
    \E p \in Threads :
       \/ \E f \in TwoAdded : AddAddedItemCallback(p, f) \/ SetAddedItemCallback(p, f)
       \/ SetRemove(p) \/ SetAppend(p)
       \/ \E key \in Keys : Add(p, key, 0, "d1")
       \/ Return(p)

SpecSet == Init /\ [][NextSet]_vars

\* ------------------------------------------------------------------ observers
\* Exists(key)
Exists(key) == items[key] # NoItem

\* Count()
Count == Cardinality({k \in Keys : items[k] # NoItem})

Quiet == \A q \in Threads : pc[q] = "idle"

\* the step in which thread p's expirationCheck drops a key from the map
ScanRemoves(p) == pc[p] = "delRelock" /\ pc'[p] = "scanLoop"

\* ------------------------------------------------------------------ claims
\* C1 (TTL expiry, liveness): a mortal item that is in the table, and is not
\* accessed, deleted, flushed or replaced, is eventually removed once its
\* lifespan has run out, in every interleaving of concurrent Add and
\* NotFoundAdd calls with expiration checks.  (Only items whose lifespan
\* runs out before MaxTime are judged: the clock of the model passes their
\* deadline.)
C1_TTLExpiry ==
    \A k \in Keys, i \in ItemIds :
        (items[k] = i /\ heap[i].lifeSpan > 0
                      /\ heap[i].accessedOn + heap[i].lifeSpan < MaxTime)
            ~> (items[k] # i)

\* C2 (no early expiry): at the moment an expiration check drops from the map
\* the item it found expired, now - accessedOn >= lifeSpan holds for the
\* accessedOn that item has at that moment, also with a Value hit running
\* beside the check.
C2_NoEarlyExpiry ==
    [][\A p \in Threads :
          (ScanRemoves(p) /\ items[loc[p].dkey] = loc[p].r)
              => Expired(now, heap[items[loc[p].dkey]].accessedOn,
                         heap[items[loc[p].dkey]].lifeSpan)]_vars

\* the item under key k was made at time 0 and hit by Value once, at a time
\* before its lifespan had run out
HitOnce(k) ==
    /\ Exists(k)
    /\ heap[items[k]].lifeSpan > 0 /\ heap[items[k]].createdOn = 0
    /\ heap[items[k]].accessCount = 1
    /\ heap[items[k]].accessedOn > 0
    /\ heap[items[k]].accessedOn < heap[items[k]].lifeSpan

Deadline(k) == heap[items[k]].accessedOn + heap[items[k]].lifeSpan

\* a step with no further access: no call starts and none is under way
NoAccess ==
    /\ opsLeft' = opsLeft
    /\ \A q \in Threads : pc[q] = "done" \/ loc[q].op \in {"none", "expirationCheck"}

\* thread p's expirationCheck, started by the timer, finishes
TimerScanEnds(p) ==
    pc[p] = "scanLoop" /\ pc'[p] = "idle" /\ loc[p].op = "expirationCheck"

\* C3 (keep-alive resets the deadline), calls made one at a time: for an item
\* of lifespan D added at time 0 and hit by Value at time t < D, with no
\* further access: the check that ends at time D leaves the item and arms the
\* timer for the time left, which is t; the key is present at every time
\* before t + D; the key goes only in an expiration check at time t + D; and
\* between calls a timer is armed that fires no later than t + D.
C3_KeepAliveResetsDeadline ==
    /\ [](\A k \in Keys :
            (Quiet /\ HitOnce(k))
               => /\ cleanupTimer.armed
                  /\ now <= cleanupTimer.at
                  /\ cleanupTimer.at <= Deadline(k))
    /\ [][\A k \in Keys :
            (HitOnce(k) /\ NoAccess)
               => /\ now < Deadline(k) => HitOnce(k)'
                  /\ ~Exists(k)' => (now = Deadline(k) /\ \E p \in Threads : ScanRemoves(p))
                  /\ \A p \in Threads :
                        (TimerScanEnds(p) /\ now = heap[items[k]].lifeSpan /\ Count = 1)
                           => /\ HitOnce(k)'
                              /\ cleanupInterval' = heap[items[k]].accessedOn
                              /\ cleanupTimer' = AfterFunc(heap[items[k]].accessedOn)]_vars

\* the check at time D has left the hit item and armed the timer for time t
C3_Witness ==
    \E k \in Keys :
        /\ Quiet /\ HitOnce(k) /\ now = heap[items[k]].lifeSpan
        /\ cleanupInterval = heap[items[k]].accessedOn
        /\ cleanupTimer = [set |-> TRUE, armed |-> TRUE, at |-> Deadline(k)]

\* C4 (immortal items): no expiration check removes an item of lifespan 0.
C4_ImmortalNeverExpired ==
    [][\A p \in Threads :
          (ScanRemoves(p) /\ Exists(loc[p].dkey))
              => heap[items[loc[p].dkey]].lifeSpan # 0]_vars

\* thread p starts the call op in this step
Starts(p, op) == pc[p] = "idle" /\ pc'[p] # "idle" /\ loc'[p].op = op

\* the step changes nothing of the table and nothing of any item
Untouched == tableVars' = tableVars /\ heap' = heap

\* C5 (Value error outcomes): Value on an absent key fails with KeyNotFound
\* when no loader is configured, without calling a loader; with a loader
\* configured it calls the loader, once, and fails with KeyNotFoundOrLoadable
\* when the loader returns no item.  No step of a failing Value changes the
\* item map, the timer state or any item's counters, and on the immediate
\* failure the key is absent.  (The loader's arguments are not in the model.)
C5_ValueErrors ==
    [][\A p \in Threads :
          /\ (Starts(p, "Value") /\ items[loc'[p].key] = NoItem)
                => /\ Untouched
                   /\ loc'[p].loads = 0
                   /\ IF loadData
                      THEN pc'[p] = "load"
                      ELSE /\ pc'[p] = "done"
                           /\ loc'[p].res = "ErrKeyNotFound"
                           /\ loc'[p].out = NoItem
                           /\ items'[loc'[p].key] = NoItem
          /\ pc[p] = "load" => (loadData /\ loc[p].loads = 0)
          /\ (pc[p] = "load" /\ pc'[p] = "done")
                => /\ Untouched
                   /\ loc'[p].loads = 1
                   /\ loc'[p].res = "ErrKeyNotFoundOrLoadable"
                   /\ loc'[p].out = NoItem
                   /\ items'[loc'[p].key] = items[loc[p].key]
          /\ (pc'[p] = "done" /\ loc'[p].op = "Value"
                /\ loc'[p].res = "ErrKeyNotFoundOrLoadable") => loc'[p].loads = 1
          /\ (pc'[p] = "done" /\ loc'[p].op = "Value"
                /\ loc'[p].res = "ErrKeyNotFound") => (~loadData /\ loc'[p].loads = 0)]_vars

\* a Value whose loader returned no item has failed, the key still absent
C5_Witness ==
    \E p \in Threads :
        /\ pc[p] = "done" /\ loc[p].op = "Value" /\ loc[p].loads = 1
        /\ loc[p].res = "ErrKeyNotFoundOrLoadable" /\ ~Exists(loc[p].key)

\* C6 (loader success): when Value misses and the loader returns an item, the
\* item Value returns is the item the table holds under the key.
C6_ValueReturnsInserted ==
    [][\A p \in Threads :
          (pc[p] # "done" /\ pc'[p] = "done" /\ loc'[p].op = "Value"
             /\ loc'[p].loads = 1 /\ loc'[p].res = "ok" /\ Alone(p))
              => loc'[p].out = items'[loc'[p].key]]_vars

\* C7 (Delete outcomes): Delete on a present key takes the item under the key,
\* removes the key from the map and returns that item with no error; Delete on
\* an absent key fails with KeyNotFound, calls no callback and leaves the item
\* map, the timer state and every item as they were.
C7_DeleteOutcomes ==
    [][\A p \in Threads :
          /\ (Starts(p, "Delete") /\ items[loc'[p].key] = NoItem)
                => /\ pc'[p] = "done"
                   /\ loc'[p].res = "ErrKeyNotFound" /\ loc'[p].out = NoItem
                   /\ loc'[p].fired = <<>>
                   /\ Untouched
          /\ (Starts(p, "Delete") /\ items[loc'[p].key] # NoItem)
                => /\ pc'[p] = "delCallbacks"
                   /\ loc'[p].r = items[loc'[p].key] /\ loc'[p].dkey = loc'[p].key
          /\ (loc[p].op = "Delete" /\ pc[p] # "done" /\ pc'[p] = "done")
                => /\ loc'[p].res = "ok"
                   /\ loc'[p].out = loc[p].r /\ loc'[p].out # NoItem
                   /\ loc[p].dkey = loc'[p].key
                   /\ items'[loc'[p].key] = NoItem]_vars

\* a Delete of a present key has returned the item, and the key is gone
C7_Witness ==
    \E p \in Threads :
        /\ pc[p] = "done" /\ loc[p].op = "Delete" /\ loc[p].res = "ok"
        /\ loc[p].out # NoItem /\ heap[loc[p].out].key = loc[p].key
        /\ ~Exists(loc[p].key)

\* C8 (NotFoundAdd): on a key that is there NotFoundAdd returns false at once:
\* the map, the timers and every item (data, createdOn, accessedOn,
\* accessCount) are as before, no callback was fired and no expiration check
\* is started.  On an absent key the key is present after the insertion, under
\* it a new item with the given data and lifespan, and the call returns true.
C8_NotFoundAdd ==
    [][\A p \in Threads :
          /\ (Starts(p, "NotFoundAdd") /\ items[loc'[p].key] # NoItem)
                => /\ pc'[p] = "done"
                   /\ loc'[p].res = "false"
                   /\ loc'[p].fired = <<>>
                   /\ Untouched
          /\ \A key \in Keys, lifeSpan \in LifeSpans, data \in Data :
                (NotFoundAdd(p, key, lifeSpan, data) /\ items[key] = NoItem)
                   => /\ items'[key] # NoItem
                      /\ items'[key] = loc'[p].item
                      /\ heap'[items'[key]] = NewCacheItem(key, lifeSpan, data)
                      /\ \A k \in Keys \ {key} : items'[k] = items[k]
          /\ (loc'[p].op = "NotFoundAdd" /\ pc'[p] = "done")
                => /\ loc'[p].res \in {"true", "false"}
                   /\ loc'[p].res = "true" <=> loc'[p].item # NoItem]_vars

\* a NotFoundAdd on an absent key has returned true, its item in the table,
\* and a NotFoundAdd on that key, now there, has returned false
C8_Witness ==
    \E p, q \in Threads :
        /\ pc[p] = "done" /\ loc[p].op = "NotFoundAdd" /\ loc[p].res = "true"
        /\ items[loc[p].key] = loc[p].item
        /\ pc[q] = "done" /\ loc[q].op = "NotFoundAdd" /\ loc[q].res = "false"
        /\ loc[q].key = loc[p].key

\* threads p and q are both inside NotFoundAdd calls on the same key
BothNotFoundAdd(p, q) ==
    /\ p # q
    /\ loc[p].op = "NotFoundAdd" /\ loc[q].op = "NotFoundAdd"
    /\ loc[p].key = loc[q].key

\* C9 (NotFoundAdd is atomic), with Add and NotFoundAdd calls and expiration
\* checks running concurrently and no Delete or Flush: of two NotFoundAdd
\* calls running at the same time on one key at most one inserts; when one
\* does, it returns true, the other returns false and the key stays in the
\* table; when neither does, the key was there.  A NotFoundAdd that finds the
\* key absent stores its own item under it, and no NotFoundAdd replaces an
\* entry that is in the map, whoever put it there: the table holds the item of
\* the call that returned true until an Add replaces it.
C9_NotFoundAddAtomic ==
    /\ [](\A p, q \in Threads :
            BothNotFoundAdd(p, q)
               => /\ ~(loc[p].item # NoItem /\ loc[q].item # NoItem)
                  /\ loc[p].item # NoItem
                        => /\ Exists(loc[p].key)
                           /\ pc[p] = "done" => loc[p].res = "true"
                           /\ pc[q] = "done" => loc[q].res = "false"
                  /\ (loc[p].item = NoItem /\ loc[q].item = NoItem)
                        => Exists(loc[p].key))
    /\ [][\A p \in Threads, k \in Keys :
            /\ (Starts(p, "NotFoundAdd") /\ loc'[p].key = k /\ items[k] = NoItem)
                  => (items'[k] # NoItem /\ items'[k] = loc'[p].item)
            /\ (items[k] # NoItem /\ items'[k] # NoItem /\ items'[k] # items[k])
                  => \E q \in Threads :
                        /\ items'[k] = loc'[q].item
                        /\ loc'[q].op \in {"Add", "Value"}]_vars

\* one NotFoundAdd has inserted and is in its expiration check while another,
\* on the same key, has returned false
C9_Witness ==
    \E p, q \in Threads :
        /\ BothNotFoundAdd(p, q)
        /\ loc[p].item # NoItem /\ pc[p] \in {"scanLock", "scanLoop"}
        /\ pc[q] = "done" /\ loc[q].res = "false"

\* thread p's Add call is running: its insertion is made, it has not returned
InAdd(p) == loc[p].op = "Add" /\ pc[p] # "done"

\* what Add's insertion does and what Add returns, calls made one at a time:
\* the key maps to the new item, made of Add's arguments with accessCount 0
\* and accessedOn = createdOn; Count grows by 1 for a key that was absent and
\* is unchanged for one that was there; no other key changes; and when Add
\* returns, it returns that item and the table still maps the key to it.
AddInsertsAndReturns(p) ==
    /\ \A key \in Keys, lifeSpan \in LifeSpans, data \in Data :
          Add(p, key, lifeSpan, data)
             => /\ items'[key] = loc'[p].item /\ items'[key] # NoItem
                /\ heap'[items'[key]] = NewCacheItem(key, lifeSpan, data)
                /\ heap'[items'[key]].accessCount = 0
                /\ heap'[items'[key]].accessedOn = heap'[items'[key]].createdOn
                /\ Count' = IF items[key] = NoItem THEN Count + 1 ELSE Count
                /\ \A k \in Keys \ {key} : items'[k] = items[k]
    /\ (loc'[p].op = "Add" /\ pc'[p] = "done")
          => /\ loc'[p].res = "ok"
             /\ loc'[p].out = loc'[p].item
             /\ items'[loc'[p].key] = loc'[p].out
             /\ heap'[loc'[p].out].accessCount = 0
             /\ heap'[loc'[p].out].accessedOn = heap'[loc'[p].out].createdOn

\* C10 as stated (Add always succeeds and replaces), calls made one at a
\* time: as above, and between Add's insertion and its return nothing in the
\* map changes, so that Count and all other keys are, when Add returns, what
\* the insertion made them.
C10_AddTouchesNoOtherKey ==
    [][\A p \in Threads :
          /\ AddInsertsAndReturns(p)
          /\ InAdd(p) => items' = items]_vars

\* C10, amended: as above, but between Add's insertion and its return the
\* expiration check Add runs may remove other keys, each holding a mortal item
\* whose lifespan has run out; nothing else in the map changes.
C10_AddReplaces ==
    [][\A p \in Threads :
          /\ AddInsertsAndReturns(p)
          /\ InAdd(p)
                => \A k \in Keys :
                      \/ items'[k] = items[k]
                      \/ /\ items'[k] = NoItem /\ k # loc[p].key
                         /\ heap[items[k]].lifeSpan > 0
                         /\ Expired(now, heap[items[k]].accessedOn,
                                    heap[items[k]].lifeSpan)]_vars

\* an Add has inserted its item, and the expiration check it runs is about to
\* remove another key, whose item has outlived its lifespan
C10_Witness ==
    \E p \in Threads :
        /\ loc[p].op = "Add" /\ pc[p] = "delRelock"
        /\ items[loc[p].key] = loc[p].item
        /\ loc[p].dkey # loc[p].key
        /\ items[loc[p].dkey] = loc[p].r
        /\ Expired(now, heap[loc[p].r].accessedOn, heap[loc[p].r].lifeSpan)

\* the cleanup timers of the table that are armed: scheduled, not yet fired and
\* not stopped, whether the table still points to them or not
ArmedTimers == (IF cleanupTimer.armed THEN 1 ELSE 0) + BagCardinality(orphanTimers)

\* C11 (at most one armed timer): in every reachable state, with Add calls,
\* Flush and expiration checks suspended in deleteInternal running side by
\* side, at most one cleanup timer of the table is armed.
C11_OneArmedTimer == ArmedTimers <= 1

\* C12 (Flush is a hard reset), calls made one at a time: Flush leaves the map
\* empty, cleanupInterval 0 and no timer armed, and calls no callback, neither
\* a delete callback of the table nor an expire callback of an item; that is
\* the state when it returns.  A mortal item then added to the empty table
\* runs an expiration check, and when Add returns the timer is armed for the
\* item's lifespan and cleanupInterval is that lifespan, as on a new table.
C12_FlushResets ==
    [][\A p \in Threads :
          /\ Starts(p, "Flush")
                => /\ pc'[p] = "done"
                   /\ items' = EmptyMap
                   /\ cleanupInterval' = 0
                   /\ ~cleanupTimer'.armed /\ orphanTimers' = EmptyBag
                   /\ \A q \in Threads : loc'[q].fired = IF q = p THEN <<>> ELSE loc[q].fired
          /\ (pc[p] = "done" /\ loc[p].op = "Flush")
                => (Count = 0 /\ cleanupInterval = 0 /\ ArmedTimers = 0)
          /\ \A key \in Keys, lifeSpan \in LifeSpans \ {0}, data \in Data :
                (Add(p, key, lifeSpan, data) /\ Count = 0 /\ cleanupInterval = 0)
                   => pc'[p] = "scanLock"
          /\ (pc[p] = "scanLoop" /\ pc'[p] = "done" /\ loc[p].op = "Add" /\ Count = 1
                /\ items[loc[p].key] = loc[p].item)
                => /\ cleanupInterval' = heap[loc[p].item].lifeSpan
                   /\ cleanupTimer' = AfterFunc(heap[loc[p].item].lifeSpan)
                   /\ ArmedTimers' = 1]_vars

\* a table that held a mortal item was flushed at time 0, its timer stopped,
\* and the Add of a mortal item that followed is about to run its check
C12_Witness ==
    \E p \in Threads :
        /\ pc[p] = "scanLock" /\ loc[p].op = "Add"
        /\ Count = 1 /\ items[loc[p].key] = loc[p].item
        /\ now = 0 /\ cleanupInterval = 0 /\ cleanupTimer = StoppedTimer

\* thread p calls callbacks in this step
CallsBack(p) == loc'[p].fired # loc[p].fired /\ loc'[p].fired # <<>>

C14_ExpireCallbackReenters ==
    \A p \in Threads :
        pc[p] \in {"cbKeepAlive", "cbAddCallback"} => ~HoldsRLock(p, loc[p].out)

\* the calls of added-item callbacks among the calls a thread has made
AddedCalls(fired) == SelectSeq(fired, LAMBDA c : c[1] \in TwoAdded)

\* C15 (add-callback order and set semantics), for calls made one at a time:
\* an Add, or a NotFoundAdd that inserts, calls every registered added-item
\* callback once, in the order of registration, with the item it has put in
\* the map, and has called no other added-item callback when it returns; a
\* NotFoundAdd that finds the key calls none; AddAddedItemCallback(f) puts f
\* behind the callbacks registered before it; SetAddedItemCallback(f) leaves
\* f as the only registered callback, whatever was registered before, so that
\* a following Add calls f only.
C15_AddCallbackOrder ==
    [][/\ \A p \in Threads :
          /\ (Starts(p, "Add") \/ (Starts(p, "NotFoundAdd") /\ loc'[p].item # NoItem))
                => /\ loc'[p].fired = [i \in 1..Len(addedItem) |->
                                          <<addedItem[i], loc'[p].item>>]
                   /\ items'[loc'[p].key] = loc'[p].item
          /\ (Starts(p, "NotFoundAdd") /\ loc'[p].item = NoItem) => loc'[p].fired = <<>>
          /\ (pc[p] # "done" /\ pc'[p] = "done" /\ loc'[p].op \in {"Add", "NotFoundAdd"}
                             /\ loc'[p].item # NoItem)
                => AddedCalls(loc'[p].fired) = [i \in 1..Len(addedItem) |->
                                                   <<addedItem[i], loc'[p].item>>]
          /\ \A f \in TwoAdded :
                AddAddedItemCallback(p, f) => addedItem' = Append(addedItem, f)
          /\ \A f \in TwoAdded :
                SetAddedItemCallback(p, f) => loc'[p].cbs = <<f>>
          /\ (loc[p].op = "SetAddedItemCallback" /\ pc[p] # "done" /\ pc'[p] = "done")
                => addedItem' = loc[p].cbs
       /\ addedItem' # addedItem
             => \E p \in Threads :
                   \/ \E f \in TwoAdded : AddAddedItemCallback(p, f)
                   \/ loc[p].op = "SetAddedItemCallback" /\ pc[p] # "done"]_vars

\* an Add on a table with two callbacks, a2 registered before a1, has called
\* a2 and then a1, each with the item it added
C15_Witness ==
    \E p \in Threads :
        /\ pc[p] = "done" /\ loc[p].op = "Add"
        /\ addedItem = <<"a2", "a1">>
        /\ items[loc[p].key] = loc[p].item
        /\ loc[p].fired = <<<<"a2", loc[p].item>>, <<"a1", loc[p].item>>>>

\* the last n calls a thread has made
LastCalls(fired, n) == SubSeq(fired, Len(fired) - n + 1, Len(fired))

\* the calls the delete protocol makes for thread p's item: the table's
\* delete callbacks in list order with the item, then the item's expire
\* callbacks in list order with the key
ProtocolCalls(p) ==
    [i \in 1..Len(loc[p].cbs) |-> <<loc[p].cbs[i], loc[p].r>>]
    \o [i \in 1..Len(heap[loc[p].r].aboutToExpire) |->
           <<heap[loc[p].r].aboutToExpire[i], loc[p].dkey>>]

\* C16 (delete-protocol order), for calls made one at a time: a Delete or an
\* expiration scan that finds the item to remove takes the table's delete
\* callbacks as registered and leaves the map alone; it then calls the
\* table's delete callbacks in list order with the item and after them the
\* item's expire callbacks in list order with the key, the key being in the
\* map with that item before and after these calls; and a key leaves the map
\* only in the step of a thread whose last calls were these, for that key.
C16_DeleteProtocolOrder ==
    [][/\ \A p \in Threads :
          /\ (pc[p] # "delCallbacks" /\ pc'[p] = "delCallbacks")
                => /\ loc'[p].cbs = aboutToDeleteItem
                   /\ loc'[p].r # NoItem /\ loc'[p].r = items[loc'[p].dkey]
                   /\ items' = items
          /\ (pc[p] = "delCallbacks" /\ pc'[p] # "delCallbacks")
                => /\ pc'[p] = "delRelock"
                   /\ loc'[p].fired = loc[p].fired \o ProtocolCalls(p)
                   /\ items[loc[p].dkey] = loc[p].r /\ items' = items
       /\ \A k \in Keys :
             (items[k] # NoItem /\ items'[k] = NoItem)
                => \E p \in Threads :
                      /\ pc[p] = "delRelock" /\ pc'[p] # "delRelock"
                      /\ loc[p].dkey = k /\ loc[p].r = items[k]
                      /\ Len(loc[p].fired) >= Len(ProtocolCalls(p))
                      /\ LastCalls(loc[p].fired, Len(ProtocolCalls(p))) = ProtocolCalls(p)
                      /\ \A j \in Keys \ {k} : items'[j] = items[j]]_vars

\* an expiration scan has called both delete callbacks and then both expire
\* callbacks of an expired item, whose key is still in the map
C16_Witness ==
    \E p \in Threads :
        /\ pc[p] = "delRelock" /\ loc[p].op = "expirationCheck"
        /\ items[loc[p].dkey] = loc[p].r
        /\ loc[p].fired = <<<<"x2", loc[p].r>>, <<"x1", loc[p].r>>,
                            <<"e2", loc[p].dkey>>, <<"e1", loc[p].dkey>>>>

\* C17 (pure peeks): Exists, Count, Foreach and MostAccessed return in the
\* step they are called in, having changed nothing of the table (the map,
\* the timers, the interval), nothing of any item, and not having called the
\* loader; an item's accessedOn or accessCount changes only in the KeepAlive
\* of a Value that found the item, which raises that item's accessCount by 1,
\* sets its accessedOn to now, and leaves the table and every other item as
\* they were.
C17_PurePeeks ==
    [][/\ \A p \in Threads :
          /\ (\E op \in {"Exists", "Count", "Foreach", "MostAccessed"} : Starts(p, op))
                => /\ Untouched
                   /\ pc'[p] = "done" /\ loc'[p].loads = 0
          /\ (pc[p] = "keepAlive" /\ pc'[p] # "keepAlive")
                => /\ loc[p].op = "Value" /\ loc[p].r # NoItem
                   /\ heap'[loc[p].r] =
                         [heap[loc[p].r] EXCEPT !.accessCount = @ + 1, !.accessedOn = now]
                   /\ \A i \in ItemIds \ {loc[p].r} : heap'[i] = heap[i]
                   /\ tableVars' = tableVars
                   /\ loc'[p].out = loc[p].r /\ loc'[p].loads = 0
       /\ \A i \in ItemIds :
             (/\ heap[i].used /\ heap'[i].used
              /\ \/ heap'[i].accessCount # heap[i].accessCount
                 \/ heap'[i].accessedOn # heap[i].accessedOn)
                => \E p \in Threads :
                      /\ pc[p] = "keepAlive" /\ pc'[p] = "done"
                      /\ loc[p].op = "Value" /\ loc[p].r = i]_vars

\* MostAccessed has returned an item that a Value hit at a later time had
\* kept alive: the item's count and access time are those the hit left
C17_Witness ==
    \E p \in Threads :
        /\ pc[p] = "done" /\ loc[p].op = "MostAccessed" /\ Len(loc[p].list) = 1
        /\ heap[loc[p].list[1]].accessCount = 1
        /\ heap[loc[p].list[1]].accessedOn = 1
        /\ heap[loc[p].list[1]].createdOn = 0
        /\ now = 2

\* the smaller of two numbers
Min(a, b) == IF a < b THEN a ELSE b

\* C18 (MostAccessed ranking): MostAccessed(n) returns min(n, Count()) items,
\* none for n <= 0, all distinct and all in the table, in non-increasing
\* order of access count, and no item left out has a higher access count
\* than an item returned.
C18_MostAccessedRanking ==
    [][\A p \in Threads :
          Starts(p, "MostAccessed")
             => LET n == loc'[p].n
                    r == loc'[p].list
                IN  /\ Len(r) = IF n <= 0 THEN 0 ELSE Min(n, Count)
                    /\ \A i, j \in DOMAIN r : i # j => r[i] # r[j]
                    /\ \A i \in DOMAIN r : \E k \in Keys : items[k] = r[i]
                    /\ \A i, j \in DOMAIN r :
                          i < j => heap[r[i]].accessCount >= heap[r[j]].accessCount
                    /\ \A k \in Keys :
                          (items[k] # NoItem /\ \A i \in DOMAIN r : r[i] # items[k])
                             => \A i \in DOMAIN r :
                                   heap[items[k]].accessCount <= heap[r[i]].accessCount]_vars

\* MostAccessed(1) on a table of two items has returned the one with more hits
C18_Witness ==
    \E p \in Threads :
        /\ pc[p] = "done" /\ loc[p].op = "MostAccessed" /\ loc[p].n = 1
        /\ Count = 2 /\ Len(loc[p].list) = 1
        /\ \E k \in Keys :
              /\ items[k] # loc[p].list[1]
              /\ heap[items[k]].accessCount < heap[loc[p].list[1]].accessCount

\* thread p's call of Cache returns in this step
CacheReturns(p) == pc[p] # "done" /\ pc'[p] = "done" /\ loc'[p].op = "Cache"

\* C19 (registry idempotence): in every interleaving of concurrent Cache
\* calls no two tables were made for one name, two names map to two tables,
\* two calls for one name that have returned hold the same table, a name's
\* table is never replaced once it is in the map, and every call returns the
\* table the map holds for its name, a table made for that name.
C19_RegistryIdempotent ==
    /\ [](/\ \A i, j \in DOMAIN tables : i # j => tables[i] # tables[j]
          /\ \A a, b \in Names :
                (a # b /\ cache[a] # NoTable /\ cache[b] # NoTable) => cache[a] # cache[b]
          /\ \A p, q \in Threads :
                (/\ pc[p] = "done" /\ pc[q] = "done"
                 /\ loc[p].op = "Cache" /\ loc[q].op = "Cache"
                 /\ loc[p].key = loc[q].key) => loc[p].n = loc[q].n)
    /\ [][/\ \A name \in Names : cache[name] # NoTable => cache'[name] = cache[name]
          /\ \A p \in Threads :
                CacheReturns(p) => /\ loc'[p].n # NoTable
                                   /\ loc'[p].n = cache'[loc'[p].key]
                                   /\ tables'[loc'[p].n] = loc'[p].key]_vars

\* two calls for one name both missed the table under the read lock; one has
\* made it and returned, the other is about to take the write lock
C19_Witness ==
    \E p, q \in Threads :
        /\ pc[p] = "done" /\ loc[p].op = "Cache" /\ loc[p].n # NoTable
        /\ pc[q] = "cacheLock" /\ loc[q].key = loc[p].key
        /\ cache[loc[p].key] = loc[p].n

\* thread p is inside an expiration check
InScan(p) ==
    \/ pc[p] \in {"scanLock", "scanLoop"}
    \/ pc[p] \in {"delCallbacks", "delRelock"} /\ loc[p].op # "Delete"

\* thread p's expiration check finishes in this step
ScanEnds(p) == pc[p] = "scanLoop" /\ pc'[p] # "scanLoop" /\ pc'[p] # "delCallbacks"

\* the mortal items of the table, and the time each has left
Mortal == {i \in ItemIds : (\E k \in Keys : items[k] = i) /\ heap[i].lifeSpan > 0}
TimeLeft(i) == heap[i].lifeSpan - (now - heap[i].accessedOn)
MinTimeLeft == CHOOSE d \in {TimeLeft(i) : i \in Mortal} : \A i \in Mortal : d <= TimeLeft(i)

\* C20 (scan result), for calls made one at a time: a step of an expiration
\* check changes the map only by removing one mortal item with
\* now - accessedOn >= lifeSpan; when the check finishes no such item is left
\* in the map, cleanupInterval is the least time left, lifeSpan - (now -
\* accessedOn), among the mortal items that are left, and the one armed timer
\* is the table's, set to fire after that time; with no mortal item left
\* cleanupInterval is 0 and no timer is armed.
C20_ScanResult ==
    [][\A p \in Threads :
          /\ (InScan(p) /\ items' # items)
                => \E k \in Keys :
                      /\ items[k] # NoItem /\ items'[k] = NoItem
                      /\ heap[items[k]].lifeSpan > 0
                      /\ now - heap[items[k]].accessedOn >= heap[items[k]].lifeSpan
                      /\ \A j \in Keys \ {k} : items'[j] = items[j]
          /\ ScanEnds(p)
                => /\ items' = items
                   /\ \A i \in Mortal : now - heap[i].accessedOn < heap[i].lifeSpan
                   /\ \A i \in Mortal : heap'[i] = heap[i]
                   /\ IF Mortal # {}
                      THEN /\ cleanupInterval' = MinTimeLeft /\ MinTimeLeft > 0
                           /\ cleanupTimer'.armed /\ cleanupTimer'.at = now + MinTimeLeft
                           /\ ArmedTimers' = 1
                      ELSE /\ cleanupInterval' = 0
                           /\ ArmedTimers' = 0]_vars

\* a check started by the timer has gone over two items, has removed the one
\* that had expired and is about to finish with the other, a mortal item
\* with time left
C20_Witness ==
    \E p \in Threads :
        /\ pc[p] = "scanLoop" /\ loc[p].op = "expirationCheck"
        /\ loc[p].visited = Keys /\ Count = 1
        /\ Mortal # {} /\ loc[p].smallest = MinTimeLeft

\* a timer is armed that fires no later than time d, or an expiration check
\* is under way (a timer has fired, or Add runs its own check)
CoveredBy(d) ==
    \/ cleanupTimer.armed /\ cleanupTimer.at <= d
    \/ \E t \in BagToSet(orphanTimers) : t <= d
    \/ \E p \in Threads : InScan(p)

\* C21 (the timer covers every deadline), for calls made one at a time: for
\* every mortal item in the map a timer is armed that fires no later than the
\* item's deadline accessedOn + lifeSpan, or an expiration check is under
\* way; this holds for an item Add has just put in without a check of its
\* own, its lifespan being no shorter than cleanupInterval.
C21_TimerCoversDeadlines ==
    \A k \in Keys :
        (items[k] # NoItem /\ heap[items[k]].lifeSpan > 0) => CoveredBy(Deadline(k))

\* an Add at time 1 has put in an item whose lifespan is the interval of the
\* timer armed at time 0, and has returned without a check of its own: the
\* timer fires at 2, before the new item's deadline 3
C21_Witness ==
    \E p \in Threads :
        /\ pc[p] = "done" /\ loc[p].op = "Add" /\ now = 1
        /\ items[loc[p].key] = loc[p].item
        /\ heap[loc[p].item].lifeSpan = 2 /\ heap[loc[p].item].createdOn = 1
        /\ cleanupInterval = 2
        /\ cleanupTimer.armed /\ cleanupTimer.at = 2

\* C22 (callbacks fire once per item): no two threads have each called the
\* delete callbacks and the expire callbacks for one and the same item, and
\* no two Delete calls have each returned one and the same item as removed.
C22_CallbacksOncePerItem ==
    \A p, q \in Threads :
        p # q =>
           /\ (pc[p] = "delRelock" /\ pc[q] = "delRelock" /\ loc[p].r = loc[q].r)
                 => ProtocolCalls(p) = <<>>
           /\ (/\ pc[p] = "done" /\ pc[q] = "done"
               /\ loc[p].op = "Delete" /\ loc[q].op = "Delete"
               /\ loc[p].res = "ok" /\ loc[q].res = "ok") => loc[p].out # loc[q].out

\* C23 (no deadlock across the table lock and the item locks): while a Delete,
\* a Value or an expiration check is under way, some goroutine that is inside
\* such a call can take its next step.
C23_NoDeadlock ==
    (\E p \in Goroutines : pc[p] \notin {"idle", "done"})
        => ENABLED (\E p \in Goroutines : Running(p))

\* C24 (a Set is an atomic replace): when two SetAddedItemCallback calls have
\* both returned, the list of added-item callbacks has exactly one element.
C24_SetIsAtomicReplace ==
    \A p, q \in Threads :
        (/\ p # q /\ pc[p] = "done" /\ pc[q] = "done"
         /\ loc[p].op = "SetAddedItemCallback" /\ loc[q].op = "SetAddedItemCallback")
            => Len(addedItem) = 1

\* the expiration check of a timer that has fired is under way
FiredScan == \E p \in Threads : InScan(p) /\ loc[p].op = "expirationCheck"

\* C25 (timer bookkeeping): while no thread holds the table lock, a
\* cleanupInterval of 0 goes with no armed timer and no check of a fired timer
\* under way, and a positive cleanupInterval with an armed timer or an
\* expiration check under way.
C25_IntervalMatchesTimer ==
    tableLock = NoThread
       => /\ cleanupInterval = 0 => (ArmedTimers = 0 /\ ~FiredScan)
          /\ cleanupInterval > 0 => (ArmedTimers > 0 \/ \E p \in Threads : InScan(p))

\* thread p's Value completes KeepAlive on item i in this step
Hits(p, i) ==
    /\ pc[p] \in {"keepAlive", "keepAliveWait"} /\ pc'[p] = "done"
    /\ loc[p].op = "Value" /\ loc[p].r = i

\* C26 (access counting loses no update), for concurrent Value calls: a new
\* item starts with accessCount 0; in every step an item's accessCount grows
\* by the number of Value hits that complete KeepAlive on it in that step and
\* by nothing else, so it equals the number of completed hits and never
\* decreases; accessedOn never moves backwards, and a hit sets it to now.
C26_AccessCountExact ==
    [][\A i \in ItemIds :
          /\ (~heap[i].used /\ heap'[i].used) => heap'[i].accessCount = 0
          /\ (heap[i].used /\ heap'[i].used)
                => /\ heap'[i].accessCount =
                         heap[i].accessCount + Cardinality({p \in Goroutines : Hits(p, i)})
                   /\ heap'[i].accessedOn >= heap[i].accessedOn
                   /\ (\E p \in Goroutines : Hits(p, i)) => heap'[i].accessedOn = now
          /\ \A p \in Goroutines : Hits(p, i) => (heap[i].used /\ heap'[i].used)]_vars

\* two Value calls that ran side by side have both hit the item of one key,
\* which was added before: its count is 2
C26_Witness ==
    \E p, q \in Goroutines :
        /\ p # q /\ pc[p] = "done" /\ pc[q] = "done"
        /\ loc[p].op = "Value" /\ loc[q].op = "Value"
        /\ loc[p].out # NoItem /\ loc[p].out = loc[q].out
        /\ heap[loc[p].out].accessCount = 2

\* C27 (Delete removes the item it returns): the entry a Delete drops from
\* the map when it has re-locked holds the item the Delete looked up, called
\* the callbacks with and returns; an item that another thread has put under
\* the key in the meantime stays in the map.
C27_DeleteRemovesItsItem ==
    [][\A p \in Goroutines :
          (pc[p] = "delRelock" /\ pc'[p] = "done" /\ loc[p].op = "Delete")
             => /\ loc'[p].out = loc[p].r
                /\ items[loc[p].dkey] \in {NoItem, loc[p].r}]_vars

\* C28 (table-lock balance): a thread that is between calls, or has a call's
\* result in hand, holds no table lock; the lock is held across steps only by
\* a thread inside the loop of an expiration check, which deleteInternal
\* gives it back to on its found path (re-locked) and on its not-found path
\* (never released); the lock is taken only when it is free and given up only
\* by the thread that holds it; a finishing check, and through it addInternal,
\* returns with the lock released.
C28_LockBalance ==
    /\ [](\A p \in Threads :
             /\ pc[p] \in {"idle", "done"} => tableLock # p
             /\ tableLock = p => pc[p] = "scanLoop")
    /\ [](tableLock \in Threads \cup {NoThread})
    /\ [][\A p \in Threads :
             /\ (tableLock' = p /\ tableLock # p)
                   => /\ tableLock = NoThread
                      /\ pc[p] \in {"scanLock", "delRelock"} /\ pc'[p] = "scanLoop"
             /\ (tableLock = p /\ tableLock' # p)
                   => /\ tableLock' = NoThread
                      /\ pc[p] = "scanLoop" /\ pc'[p] \in {"idle", "done", "delCallbacks"}
             /\ (pc[p] = "scanLoop" /\ pc'[p] # "scanLoop")
                   => tableLock = p /\ tableLock' = NoThread
             /\ (pc[p] = "delRelock" /\ loc[p].op # "Delete" /\ pc'[p] # "delRelock")
                   => tableLock' = p
             /\ (pc[p] = "delRelock" /\ loc[p].op = "Delete" /\ pc'[p] # "delRelock")
                   => tableLock = NoThread /\ tableLock' = NoThread
             /\ (pc[p] = "idle" /\ pc'[p] \in {"done", "delCallbacks", "keepAlive", "load"})
                   => tableLock = NoThread /\ tableLock' = NoThread]_vars

\* an expiration check is in its loop with the table lock held, after
\* deleteInternal has removed an item and returned to it
C28_Witness ==
    \E p \in Threads :
        /\ pc[p] = "scanLoop" /\ tableLock = p
        /\ \E k \in loc[p].visited : items[k] = NoItem

\* the item under key k is overwritten in this step
Replaced(k) == items[k] # NoItem /\ items'[k] # NoItem /\ items'[k] # items[k]

\* C29 (replacement is silent): the step in which an Add overwrites the item
\* stored under a key calls the added-item callbacks with the new item and
\* nothing else, no other thread makes a call in it, and no thread is about
\* to call the table's delete callbacks or the displaced item's expire
\* callbacks for the displaced item; a thread that starts the delete
\* protocol starts it for the item the map holds, so that the callbacks of a
\* displaced item are not called later either.
C29_ReplacementIsSilent ==
    [][/\ \A k \in Keys :
             Replaced(k)
                => /\ \E p \in Threads :
                         /\ loc'[p].item = items'[k]
                         /\ loc'[p].fired = loc[p].fired \o Calls(addedItem, items'[k])
                         /\ \A q \in Threads \ {p} : loc'[q].fired = loc[q].fired
                   /\ \A q \in Threads :
                         (pc[q] = "delCallbacks" /\ loc[q].r = items[k])
                            => ProtocolCalls(q) = <<>>
       /\ \A p \in Threads :
             (pc[p] # "delCallbacks" /\ pc'[p] = "delCallbacks")
                => loc'[p].r = items'[loc'[p].dkey]]_vars

=============================================================================
